---- MODULE Spec2Model ----
(***************************************************************************)
(* State-machine model of the yt_transcribe backend: the channels, videos  *)
(* and transcription_jobs tables, the HTTP handlers that change them and   *)
(* the background run that drives one transcription job.                    *)
(*                                                                         *)
(* A request handler is one step: it reads and commits with its own        *)
(* session.  A background run is a process with its own session: it loads  *)
(* the job once, keeps the loaded object (expire_on_commit=False) and its  *)
(* commits write only the attributes whose value differs from the value    *)
(* the session last loaded or flushed.                                      *)
(***************************************************************************)
EXTENDS Integers, Sequences, FiniteSets, TLC

\* ------------------------------------------------------------------ bounds
MaxChannels == 2
MaxVideos == 2
MaxJobs == 2
MaxRuns == 2
MaxPipelineJobs == 1

ChannelIds == 1..MaxChannels
VideoIds == 1..MaxVideos
JobIds == 1..MaxJobs
RunIds == 1..MaxRuns

\* ---------------------------------------------------------------- values
NULL == "null"
NoId == 0
TS == "ts"

PENDING == "pending"
DOWNLOADING == "downloading"
PROCESSING == "processing"
COMPLETED == "completed"
FAILED == "failed"
CANCELLED == "cancelled"

JobStatus == {PENDING, DOWNLOADING, PROCESSING, COMPLETED, FAILED, CANCELLED}
TranscriptFormat == {"txt", "srt", "vtt"}

\* request inputs
FileNameInputs == {NULL, "", "out"}
YoutubeIds == {"y" \o ToString(i) : i \in 1..MaxVideos}
Transcripts == {"t1"}
ErrorMessages == {"e1"}

JobFields == {"video_id", "status", "format", "output_file_path",
              "transcript_content", "deepgram_response", "error_message",
              "progress_percentage", "started_at", "completed_at"}

VARIABLES channels, videos, jobs, files, runs, output, notes, call

vars == <<channels, videos, jobs, files, runs, output, notes, call>>

\* ------------------------------------------------------------ persistence
\* a table is a function from the primary keys of its rows to the rows
Exists(table, id) == id \in DOMAIN table

Rows(table) == DOMAIN table

Insert(table, id, row) == table @@ (id :> row)

Delete(table, ids) == [id \in DOMAIN table \ ids |-> table[id]]

Max(S) == CHOOSE x \in S : \A y \in S : y <= x

\* the integer primary key a new row gets: one more than the largest in use
NewId(table) == IF Rows(table) = {} THEN 1 ELSE Max(Rows(table)) + 1

NoRun == [pc |-> "none", job_id |-> 0, job |-> NULL, committed |-> NULL,
          video |-> NULL]

\* the latest output of the process: the HTTP response of a request (the
\* operation, the id in the request, the status code) or the line a
\* background task prints when it ends
Idle == [op |-> "none", id |-> 0, code |-> 0]

\* no call of a service function is under way
NoCall == [fn |-> "none"]

Emit(op, id, code) == [op |-> op, id |-> id, code |-> code]

OK == 200
CREATED == 201
NO_CONTENT == 204
BAD_REQUEST == 400
NOT_FOUND == 404
CONFLICT == 409
SERVER_ERROR == 500

\* background_transcribe's prints: "Job not found", "Transcription
\* completed", "Background transcription failed"
RUN_NOT_FOUND == 1
RUN_COMPLETED == 2
RUN_FAILED == 3
RUN_CRASHED == 4

Init ==
    /\ channels = <<>>
    /\ videos = <<>>
    /\ jobs = <<>>
    /\ files = {}
    /\ runs = [r \in RunIds |-> NoRun]
    /\ output = Idle
    /\ notes = <<>>
    /\ call = NoCall

\* ------------------------------------------------------------ channel URLs
\* A URL is a sequence of lexical tokens.  YouTubeUrlValidator.PATTERNS:
\*   ^https?://(?:www\.)?youtube\.com/@([a-zA-Z0-9_-]+)/?$          username
\*   ^https?://(?:www\.)?youtube\.com/channel/([a-zA-Z0-9_-]+)/?$   channel_id
\*   ^https?://(?:www\.)?youtube\.com/c/([a-zA-Z0-9_-]+)/?$         c_format
\*   ^https?://(?:www\.)?youtube\.com/user/([a-zA-Z0-9_-]+)/?$      user_format
IdentChars == {"a", "B", "7", "_", "-"}

PathTokens == [username |-> "/@", channel_id |-> "/channel/",
               c_format |-> "/c/", user_format |-> "/user/"]

\* the order PATTERNS is iterated in
PatternOrder == <<"username", "channel_id", "c_format", "user_format">>

Drop(u, n) == SubSeq(u, n + 1, Len(u))

Head1(u) == IF Len(u) > 0 THEN u[1] ELSE ""

Last1(u) == IF Len(u) > 0 THEN u[Len(u)] ELSE ""

\* str.strip()
RECURSIVE StripLeft(_)
StripLeft(u) == IF Head1(u) = " " THEN StripLeft(Drop(u, 1)) ELSE u

RECURSIVE StripRight(_)
StripRight(u) ==
    IF Last1(u) = " " THEN StripRight(SubSeq(u, 1, Len(u) - 1)) ELSE u

Strip(u) == StripRight(StripLeft(u))

\* an optional token at the head of u
SkipOpt(u, tok) == IF Head1(u) = tok THEN Drop(u, 1) ELSE u

\* pattern.match(url): the identifier (group 1), or <<>> when no match
Match(u, url_type) ==
    LET afterScheme == IF Head1(u) \in {"http", "https"} /\ Head1(Drop(u, 1)) = "://"
                       THEN Drop(u, 2) ELSE <<"nomatch">>
        afterWww == SkipOpt(afterScheme, "www.")
        afterHost == IF Head1(afterWww) = "youtube.com" /\
                        Head1(Drop(afterWww, 1)) = PathTokens[url_type]
                     THEN Drop(afterWww, 2) ELSE <<>>
        ident == IF Last1(afterHost) = "/"
                 THEN SubSeq(afterHost, 1, Len(afterHost) - 1) ELSE afterHost
    IN IF \A i \in 1..Len(ident) : ident[i] \in IdentChars THEN ident ELSE <<>>

Invalid == [type |-> "invalid", identifier |-> <<>>]

\* YouTubeUrlValidator.validate_url
RECURSIVE ValidateFrom(_, _)
ValidateFrom(u, k) ==
    IF k > Len(PatternOrder) THEN Invalid
    ELSE IF Match(u, PatternOrder[k]) # <<>>
    THEN [type |-> PatternOrder[k], identifier |-> Match(u, PatternOrder[k])]
    ELSE ValidateFrom(u, k + 1)

ValidateUrl(url) == ValidateFrom(Strip(url), 1)

\* a normalize_url that keeps the scheme the URL was written with
NormalizeUrl_KeepsScheme(url) ==
    LET v == ValidateUrl(url) IN
    <<Head1(Strip(url)), "://", "www.", "youtube.com", PathTokens[v.type]>>
    \o v.identifier

\* YouTubeUrlValidator.normalize_url
NormalizeUrl(url) ==
    LET v == ValidateUrl(url) IN
    <<"https", "://", "www.", "youtube.com", PathTokens[v.type]>> \o v.identifier

\* the URLs requests are made with: every spelling of the URLs of the
\* channel "a7" in three of the shapes, and some URLs of no supported shape
Spellings ==
    {pad \o <<scheme, "://">> \o www \o <<"youtube.com", path, "a", "7">> \o slash \o pad :
        pad \in {<<>>, <<" ">>}, scheme \in {"http", "https"},
        www \in {<<>>, <<"www.">>}, path \in {"/@", "/channel/", "/c/"},
        slash \in {<<>>, <<"/">>}}

BadUrls ==
    {<<"ftp", "://", "www.", "youtube.com", "/@", "a", "7">>,
     <<"https", "://", "www.", "youtube.com", "/watch/", "a", "7">>,
     <<"https", "://", "www.", "youtube.com", "/@", "a", "?">>,
     <<"https", "://", "www.", "youtube.com", "/@", "a", "7", "/", "/">>,
     <<"https", "://", "www.", "youtube.com", "/@">>,
     <<"https", "://", "m.", "youtube.com", "/@", "a", "7">>}

UrlInputs == Spellings \cup BadUrls

\* ChannelService.validate_channel_url, evaluated once for each input
Validated == [u \in UrlInputs |->
                 [type |-> ValidateUrl(u).type,
                  identifier |-> ValidateUrl(u).identifier,
                  normalized_url |-> IF ValidateUrl(u).type = "invalid" THEN <<>>
                                     ELSE NormalizeUrl(u)]]

\* --------------------------------------------------------------- channels
\* ChannelService.get_all_channels and the loop of create_channel
ChannelsWithUrl(url) == {c \in Rows(channels) : channels[c].url = url}

ChannelsWithYoutubeId(yc) == {c \in Rows(channels) : channels[c].youtube_id = yc}

\* what the metadata API answers during create_channel: a channel id,
\* nothing, a classified API error, or an exception of another class
ApiAnswers == {"UC1", "UC2", "none", "api_error", "exception"}

\* POST /channels/: the status code of the response
CreateChannelCode(url, api) ==
    LET v == Validated[url] IN
    IF v.type = "invalid" THEN BAD_REQUEST
    ELSE IF ChannelsWithUrl(v.normalized_url) # {} THEN CONFLICT
    ELSE IF v.type \notin {"username", "channel_id"} THEN BAD_REQUEST
    ELSE IF api \in {"none", "api_error"} THEN BAD_REQUEST
    ELSE IF api = "exception" \/ ChannelsWithYoutubeId(api) # {} THEN SERVER_ERROR
    ELSE CREATED

\* POST /channels/
CreateChannel(url, api) ==
    /\ output' = Emit("create_channel", NoId, CreateChannelCode(url, api))
    /\ IF CreateChannelCode(url, api) = CREATED
       THEN /\ NewId(channels) \in ChannelIds
            /\ channels' = Insert(channels, NewId(channels),
                                  [youtube_id |-> api,
                                   url |-> Validated[url].normalized_url])
       ELSE UNCHANGED channels
    /\ UNCHANGED <<videos, jobs, files, runs>>
    /\ UNCHANGED <<notes, call>>

VideosOfChannel(c) == {v \in Rows(videos) : videos[v].channel_id = c}

JobsOfVideos(vs) == {j \in Rows(jobs) : jobs[j].video_id \in vs}

RECURSIVE SetToSeq(_)
SetToSeq(S) ==
    IF S = {} THEN <<>>
    ELSE LET x == CHOOSE y \in S : \A z \in S : y <= z
         IN <<x>> \o SetToSeq(S \ {x})

Tagged(kind, ids) == [i \in 1..Len(ids) |-> [table |-> kind, id |-> ids[i]]]

\* a delete_channel that leaves the jobs of the channel's videos
DeletePlan_NoJobs(c) ==
    Tagged("videos", SetToSeq(VideosOfChannel(c))) \o Tagged("channels", <<c>>)

\* ChannelService.delete_channel: the db.delete() calls, in order
DeletePlan(c) ==
    Tagged("transcription_jobs", SetToSeq(JobsOfVideos(VideosOfChannel(c))))
    \o Tagged("videos", SetToSeq(VideosOfChannel(c)))
    \o Tagged("channels", <<c>>)

Deleted(plan, kind) == {plan[i].id : i \in {k \in 1..Len(plan) : plan[k].table = kind}}

\* a Video.notes relationship that does not cascade the delete
NotesKept(vs) == {}

\* Video.notes, cascade="all, delete-orphan": the notes the session deletes
\* with the videos vs
CascadeNotes(vs) == {n \in Rows(notes) : notes[n].video_id \in vs}

\* DELETE /channels/{channel_id}: the plan is applied by one commit
DeleteChannel(c) ==
    /\ IF ~Exists(channels, c)
       THEN /\ output' = Emit("delete_channel", c, NOT_FOUND)
            /\ UNCHANGED <<channels, videos, jobs, notes>>
       ELSE /\ jobs' = Delete(jobs, Deleted(DeletePlan(c), "transcription_jobs"))
            /\ videos' = Delete(videos, Deleted(DeletePlan(c), "videos"))
            /\ notes' = Delete(notes, CascadeNotes(Deleted(DeletePlan(c), "videos")))
            /\ channels' = Delete(channels, Deleted(DeletePlan(c), "channels"))
            /\ output' = Emit("delete_channel", c, NO_CONTENT)
    /\ UNCHANGED <<files, runs, call>>

\* --------------------------------------------------------------- videos
\* a lookup that never finds the video
NoVideoByYoutubeId(yt) == {}

VideoByYoutubeId(yt) == {v \in Rows(videos) : videos[v].youtube_id = yt}

\* VideoService.create_video_from_metadata
CreateVideoFromMetadata(yt, channel_id) ==
    /\ channel_id = NoId \/ Exists(channels, channel_id)
    /\ IF VideoByYoutubeId(yt) # {}
       THEN /\ UNCHANGED videos
            /\ output' = Emit("create_video", channel_id, OK)
       ELSE /\ NewId(videos) \in VideoIds
            /\ videos' = Insert(videos, NewId(videos),
                   [youtube_id |-> yt, channel_id |-> channel_id,
                    video_file_path |-> NULL, audio_file_path |-> NULL])
            /\ output' = Emit("create_video", channel_id, CREATED)
    /\ UNCHANGED <<channels, jobs, files, runs>>
    /\ UNCHANGED <<notes, call>>

\* ----------------------------------------------------- background tasks
FreeRuns == {r \in RunIds : runs[r].pc = "none"}

\* background_tasks.add_task(background_transcribe, job.id)
AddTask(rs, job_id) ==
    LET r == CHOOSE x \in FreeRuns : \A y \in FreeRuns : x <= y
    IN [rs EXCEPT ![r] = [NoRun EXCEPT !.pc = "queued", !.job_id = job_id]]

\* ------------------------------------------------------- job requests
OutputFilePath(video, name, format) ==
    IF name = NULL \/ name = "" THEN NULL
    ELSE video.youtube_id \o "_" \o name \o "." \o format

NewJob(video_id, format, name) ==
    [video_id |-> video_id, status |-> PENDING, format |-> format,
     output_file_path |-> OutputFilePath(videos[video_id], name, format),
     transcript_content |-> NULL, deepgram_response |-> NULL,
     error_message |-> NULL, progress_percentage |-> 0,
     started_at |-> NULL, completed_at |-> NULL]

\* a create_transcription_job that does not look the video up
CreateTranscriptionJob_NoLookup(video_id, format, name) ==
    /\ NewId(jobs) \in JobIds
    /\ FreeRuns # {}
    /\ jobs' = Insert(jobs, NewId(jobs),
                      [video_id |-> video_id, status |-> PENDING, format |-> format,
                       output_file_path |-> NULL,
                       transcript_content |-> NULL, deepgram_response |-> NULL,
                       error_message |-> NULL, progress_percentage |-> 0,
                       started_at |-> NULL, completed_at |-> NULL])
    /\ runs' = AddTask(runs, NewId(jobs))
    /\ output' = Emit("create_job", video_id, OK)
    /\ UNCHANGED <<channels, videos, files>>
    /\ UNCHANGED <<notes, call>>

\* a create_transcription_job that refuses a video whose job is under way
CreateTranscriptionJob_OnePerVideo(video_id, format, name) ==
    /\ IF ~Exists(videos, video_id)
       THEN /\ output' = Emit("create_job", video_id, NOT_FOUND)
            /\ UNCHANGED <<jobs, runs>>
       ELSE IF \E j \in Rows(jobs) :
                  /\ jobs[j].video_id = video_id
                  /\ jobs[j].status \in {PENDING, DOWNLOADING, PROCESSING}
       THEN /\ output' = Emit("create_job", video_id, CONFLICT)
            /\ UNCHANGED <<jobs, runs>>
       ELSE /\ NewId(jobs) \in JobIds
            /\ FreeRuns # {}
            /\ jobs' = Insert(jobs, NewId(jobs), NewJob(video_id, format, name))
            /\ runs' = AddTask(runs, NewId(jobs))
            /\ output' = Emit("create_job", video_id, OK)
    /\ UNCHANGED <<channels, videos, files>>
    /\ UNCHANGED <<notes, call>>

\* POST /transcription/jobs
CreateTranscriptionJob(video_id, format, name) ==
    /\ IF ~Exists(videos, video_id)
       THEN /\ output' = Emit("create_job", video_id, NOT_FOUND)
            /\ UNCHANGED <<jobs, runs>>
       ELSE /\ NewId(jobs) \in JobIds
            /\ FreeRuns # {}
            /\ jobs' = Insert(jobs, NewId(jobs), NewJob(video_id, format, name))
            /\ runs' = AddTask(runs, NewId(jobs))
            /\ output' = Emit("create_job", video_id, OK)
    /\ UNCHANGED <<channels, videos, files>>
    /\ UNCHANGED <<notes, call>>

\* a cancel check that forgets the completed jobs
CannotCancel_ForgetsCompleted(status) == status \in {FAILED, CANCELLED}

CannotCancel(status) == status \in {COMPLETED, FAILED, CANCELLED}

\* a cancel_transcription_job that revokes the job's tasks
CancelTranscriptionJob_Revokes(job_id) ==
    /\ IF ~Exists(jobs, job_id)
       THEN /\ output' = Emit("cancel", job_id, NOT_FOUND)
            /\ UNCHANGED <<jobs, runs>>
       ELSE IF CannotCancel(jobs[job_id].status)
       THEN /\ output' = Emit("cancel", job_id, BAD_REQUEST)
            /\ UNCHANGED <<jobs, runs>>
       ELSE /\ jobs' = [jobs EXCEPT ![job_id].status = CANCELLED,
                                    ![job_id].completed_at = TS]
            /\ runs' = [r \in RunIds |->
                           IF runs[r].job_id = job_id THEN NoRun ELSE runs[r]]
            /\ output' = Emit("cancel", job_id, OK)
    /\ UNCHANGED <<channels, videos, files>>
    /\ UNCHANGED <<notes, call>>

\* DELETE /transcription/jobs/{job_id}
CancelTranscriptionJob(job_id) ==
    /\ IF ~Exists(jobs, job_id)
       THEN /\ output' = Emit("cancel", job_id, NOT_FOUND)
            /\ UNCHANGED jobs
       ELSE IF CannotCancel(jobs[job_id].status)
       THEN /\ output' = Emit("cancel", job_id, BAD_REQUEST)
            /\ UNCHANGED jobs
       ELSE /\ jobs' = [jobs EXCEPT ![job_id].status = CANCELLED,
                                    ![job_id].completed_at = TS]
            /\ output' = Emit("cancel", job_id, OK)
    /\ UNCHANGED <<channels, videos, files, runs>>
    /\ UNCHANGED <<notes, call>>

\* a retry check that lets the completed jobs through
CanRetry_AlsoCompleted(status) == status \in {FAILED, CANCELLED, COMPLETED}

CanRetry(status) == status \in {FAILED, CANCELLED}

\* a retry that keeps the old transcript
RetryReset_KeepsTranscript(job) ==
    [job EXCEPT !.status = PENDING, !.error_message = NULL,
                !.progress_percentage = 0, !.started_at = NULL,
                !.completed_at = NULL]

RetryReset(job) ==
    [job EXCEPT !.status = PENDING, !.error_message = NULL,
                !.progress_percentage = 0, !.started_at = NULL,
                !.completed_at = NULL, !.transcript_content = NULL,
                !.deepgram_response = NULL]

\* POST /transcription/jobs/{job_id}/retry
RetryTranscriptionJob(job_id) ==
    /\ IF ~Exists(jobs, job_id)
       THEN /\ output' = Emit("retry", job_id, NOT_FOUND)
            /\ UNCHANGED <<jobs, runs>>
       ELSE IF ~CanRetry(jobs[job_id].status)
       THEN /\ output' = Emit("retry", job_id, BAD_REQUEST)
            /\ UNCHANGED <<jobs, runs>>
       ELSE /\ FreeRuns # {}
            /\ jobs' = [jobs EXCEPT ![job_id] = RetryReset(@)]
            /\ runs' = AddTask(runs, job_id)
            /\ output' = Emit("retry", job_id, OK)
    /\ UNCHANGED <<channels, videos, files>>
    /\ UNCHANGED <<notes, call>>

\* ------------------------------------------------------ background run
\* the attributes a flush puts in its UPDATE: those whose in-memory value
\* differs from the value the session last loaded or flushed (a fresh
\* datetime.utcnow() always differs)
Changed(committed, new, stamped) ==
    {f \in JobFields : f \in stamped \/ new[f] # committed[f]}

\* the row after the session's UPDATE
Flush(stored, committed, new, stamped) ==
    [f \in JobFields |->
        IF f \in Changed(committed, new, stamped) THEN new[f] ELSE stored[f]]

\* the UPDATE must match the row
CanFlush(job_id, committed, new, stamped) ==
    Changed(committed, new, stamped) = {} \/ Exists(jobs, job_id)

\* the run ends: its task slot is free again and its last line is printed
Finishes(r, line) ==
    /\ runs' = [runs EXCEPT ![r] = NoRun]
    /\ output' = Emit("run", runs[r].job_id, line)

\* the effect on the jobs table of a db.commit() of the run that succeeds
StoreJob(r, new, stamped) ==
    LET run == runs[r] IN
    /\ CanFlush(run.job_id, run.committed, new, stamped)
    /\ jobs' = IF Changed(run.committed, new, stamped) = {} THEN jobs
               ELSE [jobs EXCEPT ![run.job_id] = Flush(@, run.committed, new, stamped)]

\* a db.commit() inside the try block that succeeds
RunCommits(r, new, stamped, pc2) ==
    /\ StoreJob(r, new, stamped)
    /\ runs' = [runs EXCEPT ![r].job = new, ![r].committed = new, ![r].pc = pc2]
    /\ UNCHANGED output

\* the except block of process_transcription_job
ExceptBlock(job, msg) ==
    [job EXCEPT !.status = FAILED, !.error_message = msg, !.completed_at = TS]

\* a stage raises with the in-memory job `new`; the except block commits
RunRaises(r, new, msg) ==
    /\ StoreJob(r, ExceptBlock(new, msg), {"completed_at"})
    /\ Finishes(r, RUN_FAILED)

\* the commit of the except block raises as well (the database is still
\* unavailable, or the row is gone): nothing is stored
RunCrashes(r) ==
    /\ UNCHANGED jobs
    /\ Finishes(r, RUN_CRASHED)

\* the except block after a db.commit() that raised: the failed commit has
\* rolled the session back and expired the job, so the UPDATE of the except
\* block carries the three attributes the block sets
RunRecovers(r, msg) ==
    /\ Exists(jobs, runs[r].job_id)
    /\ jobs' = [jobs EXCEPT ![runs[r].job_id] = ExceptBlock(@, msg)]
    /\ Finishes(r, RUN_FAILED)

\* a db.commit() inside the try block raises
CommitRaises(r) ==
    \/ \E msg \in ErrorMessages : RunRecovers(r, msg)
    \/ RunCrashes(r)

\* a failing stage after which the run still stores a transcript
StageFails_StoresTranscript(r) ==
    /\ Exists(jobs, runs[r].job_id)
    /\ \E t \in Transcripts, msg \in ErrorMessages :
          jobs' = [jobs EXCEPT ![runs[r].job_id] =
                      [ExceptBlock(@, msg) EXCEPT !.transcript_content = t]]
    /\ Finishes(r, RUN_FAILED)

\* an external call of a stage raises, or the commit that follows it does
StageFails(r) ==
    \/ \E msg \in ErrorMessages : RunRaises(r, runs[r].job, msg)
    \/ RunCrashes(r)

\* _download_video, _extract_audio: the file a video's id names
VideoFile(v) == "videos/" \o v.youtube_id \o ".mp4"
AudioFile(v) == v.youtube_id \o ".wav"

NoVideo == [id |-> 0, youtube_id |-> NULL, video_file_path |-> NULL,
            audio_file_path |-> NULL]

\* a check that never finds a file
AlwaysMissing(path) == TRUE

\* not video.<path> or not Path(video.<path>).exists()
Missing(path) == path = NULL \/ path \notin files

\* the job's video as the run's session loads it (selectinload)
LoadVideo(video_id) ==
    IF Exists(videos, video_id)
    THEN [id |-> video_id,
          youtube_id |-> videos[video_id].youtube_id,
          video_file_path |-> videos[video_id].video_file_path,
          audio_file_path |-> videos[video_id].audio_file_path]
    ELSE NoVideo

\* background_transcribe: open a session and load the job with its video
LoadJob(r) ==
    LET run == runs[r] IN
    /\ run.pc = "queued"
    /\ IF ~Exists(jobs, run.job_id)
       THEN Finishes(r, RUN_NOT_FOUND)
       ELSE /\ runs' = [runs EXCEPT ![r].pc = "start",
                           ![r].job = jobs[run.job_id],
                           ![r].committed = jobs[run.job_id],
                           ![r].video = LoadVideo(jobs[run.job_id].video_id)]
            /\ UNCHANGED output
    /\ UNCHANGED <<channels, videos, jobs, files>>
    /\ UNCHANGED <<notes, call>>

\* lines 37-39: the in-memory job marked as downloading
DownloadingJob(job) ==
    [job EXCEPT !.status = DOWNLOADING, !.started_at = TS,
                !.progress_percentage = 10]

\* lines 36-40
StartDownloading(r) ==
    /\ runs[r].pc = "start"
    /\ \/ RunCommits(r, DownloadingJob(runs[r].job), {"started_at"}, "video")
       \/ CommitRaises(r)
    /\ UNCHANGED <<channels, videos, files>>
    /\ UNCHANGED <<notes, call>>

\* line 43
CheckVideo(r) ==
    LET run == runs[r] IN
    /\ run.pc = "video"
    /\ IF run.video.id = 0
       THEN StageFails(r)
       ELSE /\ runs' = [runs EXCEPT ![r].pc =
                   IF Missing(run.video.video_file_path) THEN "download" ELSE "p30"]
            /\ UNCHANGED <<jobs, output>>
    /\ UNCHANGED <<channels, videos, files>>
    /\ UNCHANGED <<notes, call>>

\* the session's UPDATE of the video row
StoreVideo(v, field, path) ==
    IF v[field] = path THEN UNCHANGED videos
    ELSE /\ Exists(videos, v.id)
         /\ videos' = [videos EXCEPT ![v.id][field] = path]

\* lines 44-46
DownloadVideo(r) ==
    LET run == runs[r] IN
    /\ run.pc = "download"
    /\ \/ /\ files' = files \cup {VideoFile(run.video)}
          /\ \/ /\ StoreVideo(run.video, "video_file_path", VideoFile(run.video))
                /\ runs' = [runs EXCEPT ![r].pc = "p30",
                               ![r].video.video_file_path = VideoFile(run.video)]
                /\ UNCHANGED <<jobs, output>>
             \/ /\ CommitRaises(r)
                /\ UNCHANGED videos
       \/ /\ StageFails(r)
          /\ UNCHANGED <<videos, files>>
    /\ UNCHANGED channels
    /\ UNCHANGED <<notes, call>>

\* lines 48-49: the in-memory job once the video file is there
VideoReadyJob(job) == [job EXCEPT !.progress_percentage = 30]

\* lines 48-52
Progress30(r) ==
    LET run == runs[r] IN
    /\ run.pc = "p30"
    /\ \/ RunCommits(r, VideoReadyJob(run.job), {},
                     IF Missing(run.video.audio_file_path) THEN "extract" ELSE "toproc")
       \/ CommitRaises(r)
    /\ UNCHANGED <<channels, videos, files>>
    /\ UNCHANGED <<notes, call>>

\* lines 53-57
ExtractAudio(r) ==
    LET run == runs[r] IN
    /\ run.pc = "extract"
    /\ \/ /\ VideoFile(run.video) \in files
          /\ files' = files \cup {AudioFile(run.video)}
          /\ \/ /\ StoreVideo(run.video, "audio_file_path", AudioFile(run.video))
                /\ runs' = [runs EXCEPT ![r].pc = "toproc",
                               ![r].video.audio_file_path = AudioFile(run.video)]
                /\ UNCHANGED <<jobs, output>>
             \/ /\ CommitRaises(r)
                /\ UNCHANGED videos
       \/ /\ StageFails(r)
          /\ UNCHANGED <<videos, files>>
    /\ UNCHANGED channels
    /\ UNCHANGED <<notes, call>>

\* lines 60-61: the in-memory job marked as processing
ProcessingJob(job) ==
    [job EXCEPT !.status = PROCESSING, !.progress_percentage = 50]

\* lines 59-62
StartProcessing(r) ==
    /\ runs[r].pc = "toproc"
    /\ \/ RunCommits(r, ProcessingJob(runs[r].job), {}, "transcribe")
       \/ CommitRaises(r)
    /\ UNCHANGED <<channels, videos, files>>
    /\ UNCHANGED <<notes, call>>

\* lines 68-70: the in-memory job after the results are stored
StoreResults(job, t) ==
    [job EXCEPT !.transcript_content = t, !.deepgram_response = t,
                !.progress_percentage = 90]

\* lines 64-73
TranscribeAudio(r) ==
    LET run == runs[r] IN
    /\ run.pc = "transcribe"
    /\ \/ /\ \E t \in Transcripts :
                runs' = [runs EXCEPT ![r].job = StoreResults(run.job, t),
                            ![r].pc = IF run.job.output_file_path # NULL
                                      THEN "save" ELSE "complete"]
          /\ UNCHANGED <<jobs, output>>
       \/ StageFails(r)
    /\ UNCHANGED <<channels, videos, files>>
    /\ UNCHANGED <<notes, call>>

\* lines 73-76
SaveTranscriptFile(r) ==
    LET run == runs[r] IN
    /\ run.pc = "save"
    /\ \/ /\ files' = files \cup {run.job.output_file_path}
          /\ runs' = [runs EXCEPT ![r].pc = "complete"]
          /\ UNCHANGED <<jobs, output>>
       \/ /\ StageFails(r)
          /\ UNCHANGED files
    /\ UNCHANGED <<channels, videos>>
    /\ UNCHANGED <<notes, call>>

\* lines 79-81: the in-memory job marked as completed
CompletedJob(job) ==
    [job EXCEPT !.status = COMPLETED, !.completed_at = TS,
                !.progress_percentage = 100]

\* lines 78-82
Complete(r) ==
    /\ runs[r].pc = "complete"
    /\ \/ /\ StoreJob(r, CompletedJob(runs[r].job), {"completed_at"})
          /\ Finishes(r, RUN_COMPLETED)
       \/ CommitRaises(r)
    /\ UNCHANGED <<channels, videos, files>>
    /\ UNCHANGED <<notes, call>>

\* ------------------------------------------------------- specification
RunStep(r) ==
    \/ LoadJob(r)
    \/ StartDownloading(r)
    \/ CheckVideo(r)
    \/ DownloadVideo(r)
    \/ Progress30(r)
    \/ ExtractAudio(r)
    \/ StartProcessing(r)
    \/ TranscribeAudio(r)
    \/ SaveTranscriptFile(r)
    \/ Complete(r)

\* the transcription pipeline: a video without a channel, its jobs (at
\* most MaxPipelineJobs of them) and the runs of these jobs
Next ==
    \/ CreateVideoFromMetadata("y1", NoId)
    \/ /\ Cardinality(Rows(jobs)) < MaxPipelineJobs
       /\ \E v \in VideoIds, n \in FileNameInputs :
             CreateTranscriptionJob(v, "srt", n)
    \/ \E j \in JobIds : CancelTranscriptionJob(j)
    \/ \E j \in JobIds : RetryTranscriptionJob(j)
    \/ \E r \in RunIds : RunStep(r)

Spec == Init /\ [][Next]_vars

\* the jobs of one video and their runs, no job cancelled or retried
NextJobs ==
    \/ CreateVideoFromMetadata("y1", NoId)
    \/ \E v \in VideoIds, n \in FileNameInputs : CreateTranscriptionJob(v, "srt", n)
    \/ \E r \in RunIds : RunStep(r)

SpecJobs == Init /\ [][NextJobs]_vars

\* every external call a run awaits returns or raises in the end, and the
\* event loop schedules the run again: the next step of a run is taken
SpecJobsLive == SpecJobs /\ \A r \in RunIds : WF_vars(RunStep(r))

\* the channel and video requests; the tasks that job creation queues do
\* not run

NextChannels ==
    \/ \E u \in UrlInputs, api \in ApiAnswers : CreateChannel(u, api)
    \/ \E c \in ChannelIds : DeleteChannel(c)
    \/ \E yt \in YoutubeIds, c \in ChannelIds \cup {NoId} :
          CreateVideoFromMetadata(yt, c)
    \/ \E v \in VideoIds : CreateTranscriptionJob(v, "txt", NULL)

SpecChannels == Init /\ [][NextChannels]_vars

\* ----------------------------------------------------------------- notes
MaxNotes == 2

NoteIds == 1..MaxNotes

\* the text of a note
Contents == {"n", "m"}

\* POST /videos/{video_id}/notes
CreateNote(video_id, content) ==
    /\ IF ~Exists(videos, video_id)
       THEN /\ output' = Emit("create_note", video_id, NOT_FOUND)
            /\ UNCHANGED notes
       ELSE /\ NewId(notes) \in NoteIds
            /\ notes' = Insert(notes, NewId(notes),
                               [video_id |-> video_id, content |-> content])
            /\ output' = Emit("create_note", video_id, OK)
    /\ UNCHANGED <<channels, videos, jobs, files, runs, call>>

\* PUT /notes/{note_id}
UpdateNote(note_id, content) ==
    /\ IF ~Exists(notes, note_id)
       THEN /\ output' = Emit("update_note", note_id, NOT_FOUND)
            /\ UNCHANGED notes
       ELSE /\ notes' = [notes EXCEPT ![note_id].content = content]
            /\ output' = Emit("update_note", note_id, OK)
    /\ UNCHANGED <<channels, videos, jobs, files, runs, call>>

\* DELETE /notes/{note_id}
DeleteNote(note_id) ==
    /\ IF ~Exists(notes, note_id)
       THEN /\ output' = Emit("delete_note", note_id, NOT_FOUND)
            /\ UNCHANGED notes
       ELSE /\ notes' = Delete(notes, {note_id})
            /\ output' = Emit("delete_note", note_id, OK)
    /\ UNCHANGED <<channels, videos, jobs, files, runs, call>>

\* the URLs that are written in their normalized form
CanonicalUrls == {u \in Spellings : Validated[u].normalized_url = u}

\* the requests on channels, videos and notes
NextNotes ==
    \/ \E u \in CanonicalUrls, api \in ApiAnswers : CreateChannel(u, api)
    \/ \E c \in ChannelIds : DeleteChannel(c)
    \/ \E yt \in YoutubeIds, c \in ChannelIds \cup {NoId} :
          CreateVideoFromMetadata(yt, c)
    \/ \E v \in VideoIds, content \in Contents : CreateNote(v, content)
    \/ \E n \in NoteIds, content \in Contents : UpdateNote(n, content)
    \/ \E n \in NoteIds : DeleteNote(n)

SpecNotes == Init /\ [][NextNotes]_vars

\* ------------------------------------------------------ metadata provider
\* str.lower(), letter by letter; a string is a sequence of pieces
LowerCase ==
    ("quotaExceeded" :> "quotaexceeded") @@ ("dailyLimitExceeded" :> "dailylimitexceeded")
    @@ ("usageRateLimitExceeded" :> "usageratelimitexceeded")
    @@ ("accessNotConfigured" :> "accessnotconfigured") @@ ("notFound" :> "notfound")
    @@ ("videoNotFound" :> "videonotfound") @@ ("channelNotFound" :> "channelnotfound")
    @@ ("rateLimitExceeded" :> "ratelimitexceeded") @@ ("Forbidden" :> "forbidden")
    @@ ("Quota" :> "quota") @@ ("A" :> "a") @@ ("B" :> "b")

Lower(s) == IF s \in DOMAIN LowerCase THEN LowerCase[s] ELSE s

LowerSeq(u) == [i \in 1..Len(u) |-> Lower(u[i])]

QuotaExceeded == "YouTubeQuotaExceededError"
AccessDenied == "YouTubeAccessDeniedError"
NotFound == "YouTubeNotFoundError"
ApiError == "YouTubeAPIError"

\* the class _handle_http_error raises for one detail, "" for none
ReasonClass(reason) ==
    IF Lower(reason) \in {"quotaexceeded", "dailylimitexceeded", "usageratelimitexceeded"}
    THEN QuotaExceeded
    ELSE IF Lower(reason) \in {"forbidden", "accessnotconfigured"}
    THEN AccessDenied
    ELSE IF Lower(reason) \in {"notfound", "videonotfound", "channelnotfound"}
    THEN NotFound
    ELSE ""

\* the loop over error_details, from detail k on
RECURSIVE DetailsClass(_, _)
DetailsClass(details, k) ==
    IF k > Len(details) THEN ""
    ELSE IF ReasonClass(details[k]) # "" THEN ReasonClass(details[k])
    ELSE DetailsClass(details, k + 1)

\* 'quota' in str(error).lower()
MentionsQuota(text) == \E i \in 1..Len(text) : Lower(text[i]) = "quota"

\* the fallback of _handle_http_error on the HTTP status
StatusClass(status, text) ==
    IF status = 403
    THEN IF MentionsQuota(text) THEN QuotaExceeded ELSE AccessDenied
    ELSE IF status = 404 THEN NotFound
    ELSE ApiError

\* a _handle_http_error that looks at the HTTP status first
HandleHttpError_StatusFirst(error) ==
    IF error.status \in {403, 404} THEN StatusClass(error.status, error.text)
    ELSE IF DetailsClass(error.details, 1) # "" THEN DetailsClass(error.details, 1)
    ELSE ApiError

\* YouTubeAPIService._handle_http_error: the class of the exception raised
HandleHttpError(error) ==
    IF DetailsClass(error.details, 1) # "" THEN DetailsClass(error.details, 1)
    ELSE StatusClass(error.status, error.text)

\* the HttpErrors the provider answers with: the reasons of the details
\* ("" for a detail without a reason), the HTTP status and the error text
Reasons == {"quotaExceeded", "dailyLimitExceeded", "usageRateLimitExceeded",
            "forbidden", "Forbidden", "accessNotConfigured", "notFound",
            "videoNotFound", "channelNotFound", "rateLimitExceeded", ""}

MaxDetails == 2

DetailLists == UNION {[1..n -> Reasons] : n \in 0..MaxDetails}

HttpStatuses == {400, 403, 404, 500}

ErrorTexts == {<<"Forbidden">>, <<"daily", "Quota", "used">>, <<"backend", "error">>}

HttpErrors == [details : DetailLists, status : HttpStatuses, text : ErrorTexts]

\* a request to the YouTube Data API
Request(api, param, value) == [api |-> api, param |-> param, value |-> value]

\* a get_channel_by_username that tries the legacy username lookup first
Strategies_UsernameFirst(username) ==
    <<Request("channels.list", "forUsername", username),
      Request("channels.list", "forHandle", <<"@">> \o username),
      Request("channels.list", "forHandle", username),
      Request("channels.list", "forHandle", <<"@">> \o LowerSeq(username)),
      Request("channels.list", "forHandle", LowerSeq(username)),
      Request("search.list", "q", <<"@">> \o username),
      Request("search.list", "q", <<"@">> \o LowerSeq(username)),
      Request("search.list", "q", <<"\"">> \o username \o <<"\"">>),
      Request("search.list", "q", username)>>

\* get_channel_by_username: the requests of its strategies, in order: the
\* forHandle variations, forUsername, the search queries
Strategies(username) ==
    <<Request("channels.list", "forHandle", <<"@">> \o username),
      Request("channels.list", "forHandle", username),
      Request("channels.list", "forHandle", <<"@">> \o LowerSeq(username)),
      Request("channels.list", "forHandle", LowerSeq(username)),
      Request("channels.list", "forUsername", username),
      Request("search.list", "q", <<"@">> \o username),
      Request("search.list", "q", <<"@">> \o LowerSeq(username)),
      Request("search.list", "q", <<"\"">> \o username \o <<"\"">>),
      Request("search.list", "q", username)>>

\* what the provider answers: an HttpError, or a list of items
Usernames == {<<"a", "B">>, <<"a", "b">>}

ChannelItems == {"UC1"}

Snippet(title, customUrl, channelId) ==
    [title |-> title, customUrl |-> customUrl, channelId |-> channelId]

SearchItemLists ==
    {<<>>,
     <<Snippet(<<"a", "B", "c">>, <<>>, "UC2")>>,
     <<Snippet(<<"a", "B", "c">>, <<>>, "UC2"), Snippet(<<"A", "B">>, <<>>, "UC1")>>,
     <<Snippet(<<"x">>, <<"@", "a", "B">>, "UC1")>>,
     <<Snippet(<<"x">>, <<"A", "b">>, "UC1")>>,
     <<Snippet(<<"x">>, <<"@", "a", "b", "c">>, "UC2")>>}

\* no search result was accepted
NoItem == Snippet(<<>>, <<>>, "")

\* the exact-match test of the search fallback
ExactMatch(item, username) ==
    \/ LowerSeq(item.title) = LowerSeq(username)
    \/ LowerSeq(item.customUrl) = <<"@">> \o LowerSeq(username)
    \/ LowerSeq(item.customUrl) = LowerSeq(username)

\* the first item of a search response the fallback accepts (0: none)
FirstMatch(items, username) ==
    IF \E i \in 1..Len(items) : ExactMatch(items[i], username)
    THEN CHOOSE i \in 1..Len(items) :
            /\ ExactMatch(items[i], username)
            /\ \A k \in 1..(i - 1) : ~ExactMatch(items[k], username)
    ELSE 0

Returned(value) == [kind |-> "returned", value |-> value]

Raised(class) == [kind |-> "raised", value |-> class]

Pending == [kind |-> "pending", value |-> NULL]

\* no HttpError reached _handle_http_error
NoError == [details |-> <<>>, status |-> 0, text |-> <<>>]

\* a call of the provider service under way: who called, for which URL
\* and name, where it is (the strategy k, or the lookup by id), the
\* requests issued so far, whether one of them was answered without an
\* error, the search result that was accepted, the classes of the HttpErrors the strategies caught and dropped,
\* how the call ended (and on which HttpError) and what create_channel
\* told the client
NewCall(fn, caller, url, name, channel_id, pc) ==
    [fn |-> fn, caller |-> caller, url |-> url, name |-> name,
     channel_id |-> channel_id, pc |-> pc, k |-> 1, requests |-> <<>>,
     answered |-> FALSE, dropped |-> {}, item |-> NoItem,
     outcome |-> Pending, error |-> NoError, detail |-> NULL]

InProgress ==
    /\ call.fn # "none"
    /\ call.pc # "reported"
    /\ ~(call.pc = "done" /\ call.caller = "service")

Issued(request) == [call EXCEPT !.requests = Append(@, request)]

\* the request was answered with items (maybe none)
Answered(request) == [Issued(request) EXCEPT !.answered = TRUE]

\* the request was answered with the HttpError e, which the strategy logs
Dropped(request, e) ==
    [Issued(request) EXCEPT !.dropped = @ \cup {HandleHttpError(e)}]

\* the HttpErrors the provider answers a strategy's request with
StrategyErrors ==
    {[details |-> <<"quotaExceeded">>, status |-> 403, text |-> <<"Forbidden">>],
     [details |-> <<"accessNotConfigured">>, status |-> 403, text |-> <<"Forbidden">>]}

\* YouTubeAPIService.get_channel_by_username is called
GetChannelByUsername(username) ==
    /\ ~InProgress
    /\ call' = NewCall("get_channel_by_username", "service", <<>>, username,
                       <<>>, "strategy")
    /\ UNCHANGED <<channels, videos, jobs, files, runs, output, notes>>

\* YouTubeAPIService.get_channel_info is called
GetChannelInfo(channel_id) ==
    /\ ~InProgress
    /\ call' = NewCall("get_channel_info", "service", <<>>, <<>>, <<channel_id>>, "info")
    /\ UNCHANGED <<channels, videos, jobs, files, runs, output, notes>>

\* call c moves past a strategy that gave no match: to the next one, or
\* to `return None`
NoMatch(c) ==
    IF c.k < Len(Strategies(c.name))
    THEN [c EXCEPT !.k = c.k + 1]
    ELSE [c EXCEPT !.pc = "done", !.outcome = Returned(NULL)]

\* one channels.list request of get_channel_by_username (forHandle or
\* forUsername): an item is returned, no item or an HttpError moves on
ChannelsListStep ==
    /\ call.fn = "get_channel_by_username"
    /\ call.pc = "strategy"
    /\ Strategies(call.name)[call.k].api = "channels.list"
    /\ \/ \E ch \in ChannelItems :
             call' = [Answered(Strategies(call.name)[call.k]) EXCEPT
                         !.pc = "done", !.outcome = Returned(ch)]
       \/ call' = NoMatch(Answered(Strategies(call.name)[call.k]))
       \/ \E e \in StrategyErrors :
             call' = NoMatch(Dropped(Strategies(call.name)[call.k], e))
    /\ UNCHANGED <<channels, videos, jobs, files, runs, output, notes>>

\* one search.list request of get_channel_by_username: the first exact
\* match is looked up by id, no match or an HttpError moves on
SearchStep ==
    /\ call.fn = "get_channel_by_username"
    /\ call.pc = "strategy"
    /\ Strategies(call.name)[call.k].api = "search.list"
    /\ \/ \E items \in SearchItemLists :
             LET c == Answered(Strategies(call.name)[call.k])
                 i == FirstMatch(items, call.name)
             IN call' = IF i = 0 THEN NoMatch(c)
                        ELSE [c EXCEPT !.pc = "info", !.item = items[i],
                                       !.channel_id = <<items[i].channelId>>]
       \/ \E e \in StrategyErrors :
             call' = NoMatch(Dropped(Strategies(call.name)[call.k], e))
    /\ UNCHANGED <<channels, videos, jobs, files, runs, output, notes>>

\* the HttpErrors the provider answers a lookup by id with: any of them
\* when get_channel_info is called for itself, those of the strategies
\* when it is called for a search result
LookupErrors(fn) == IF fn = "get_channel_info" THEN HttpErrors ELSE StrategyErrors

\* the channels.list request of get_channel_info: the first item, None
\* when the items are empty, a KeyError when the response has no items,
\* or the exception _handle_http_error raises
ChannelInfoStep ==
    /\ call.fn \in {"get_channel_info", "get_channel_by_username"}
    /\ call.pc = "info"
    /\ LET c == Issued(Request("channels.list", "id", call.channel_id)) IN
       \/ \E ch \in ChannelItems :
             call' = [c EXCEPT !.pc = "done", !.outcome = Returned(ch)]
       \/ call' = [c EXCEPT !.pc = "done", !.outcome = Returned(NULL)]
       \/ call' = [c EXCEPT !.pc = "done", !.outcome = Raised("KeyError")]
       \/ \E e \in LookupErrors(call.fn) :
             call' = [c EXCEPT !.pc = "done", !.error = e,
                               !.outcome = Raised(HandleHttpError(e))]
    /\ UNCHANGED <<channels, videos, jobs, files, runs, output, notes>>

\* create_channel up to its call of the provider: the URL is validated
\* and compared with the stored ones, and its shape picks the lookup
ProviderUrls ==
    {<<"https", "://", "www.", "youtube.com", "/@", "a", "7">>,
     <<"http", "://", "youtube.com", "/channel/", "a", "7", "/">>,
     <<"https", "://", "youtube.com", "/c/", "a", "7">>,
     <<"https", "://", "www.", "youtube.com", "/watch/", "a", "7">>}

\* the ValueError messages of create_channel, by what they tell
EarlyDetail(url) ==
    IF Validated[url].type = "invalid" THEN "unsupported_url"
    ELSE IF ChannelsWithUrl(Validated[url].normalized_url) # {} THEN "already_exists"
    ELSE IF Validated[url].type \notin {"username", "channel_id"} THEN "manual_conversion"
    ELSE NULL

BeginCreateChannel(url) ==
    /\ ~InProgress
    /\ IF EarlyDetail(url) # NULL
       THEN /\ output' = Emit("create_channel", NoId, CreateChannelCode(url, "none"))
            /\ call' = [NewCall("none", "create_channel", url, <<>>, <<>>, "reported")
                          EXCEPT !.detail = EarlyDetail(url)]
       ELSE /\ call' = IF Validated[url].type = "username"
                       THEN NewCall("get_channel_by_username", "create_channel", url,
                                    Validated[url].identifier, <<>>, "strategy")
                       ELSE NewCall("get_channel_info", "create_channel", url,
                                    <<>>, Validated[url].identifier, "info")
            /\ UNCHANGED output
    /\ UNCHANGED <<channels, videos, jobs, files, runs, notes>>

\* what the lookup gave create_channel, as CreateChannelCode reads it
ApiAnswer(outcome) ==
    IF outcome.kind = "raised"
    THEN IF outcome.value \in {QuotaExceeded, AccessDenied, NotFound, ApiError}
         THEN "api_error" ELSE "exception"
    ELSE IF outcome.value = NULL THEN "none"
    ELSE outcome.value

\* the except clauses of create_channel around the lookup, and its end
LookupDetail(outcome, code) ==
    IF outcome.kind = "raised"
    THEN CASE outcome.value = QuotaExceeded -> "quota_exceeded"
           [] outcome.value = AccessDenied -> "access_denied"
           [] outcome.value = NotFound -> "not_found_on_youtube"
           [] outcome.value = ApiError -> "api_error"
           [] OTHER -> "failed_to_create"
    ELSE IF outcome.value = NULL THEN "channel_not_found"
    ELSE IF code = CREATED THEN "created"
    ELSE "failed_to_create"

\* create_channel from the return of the lookup to its response
EndCreateChannel ==
    /\ call.fn # "none"
    /\ call.caller = "create_channel"
    /\ call.pc = "done"
    /\ LET code == CreateChannelCode(call.url, ApiAnswer(call.outcome)) IN
       /\ output' = Emit("create_channel", NoId, code)
       /\ call' = [call EXCEPT !.pc = "reported",
                               !.detail = LookupDetail(call.outcome, code)]
       /\ IF code = CREATED
          THEN /\ NewId(channels) \in ChannelIds
               /\ channels' = Insert(channels, NewId(channels),
                                     [youtube_id |-> ApiAnswer(call.outcome),
                                      url |-> Validated[call.url].normalized_url])
          ELSE UNCHANGED channels
    /\ UNCHANGED <<videos, jobs, files, runs, notes>>

\* the provider service and the channel creation that calls it, request
\* by request
NextProvider ==
    \/ \E u \in Usernames : GetChannelByUsername(u)
    \/ \E ch \in ChannelItems : GetChannelInfo(ch)
    \/ \E url \in ProviderUrls : BeginCreateChannel(url)
    \/ ChannelsListStep
    \/ SearchStep
    \/ ChannelInfoStep
    \/ EndCreateChannel

SpecProvider == Init /\ [][NextProvider]_vars

\* ------------------------------------------------------ the URL validator
\* the identifiers the validated URLs carry
Identifiers == {<<"a", "7">>, <<"B", "_", "-">>}

\* whitespace around a URL
Paddings == {<<>>, <<" ">>, <<" ", " ">>}

\* the strings validate_channel_url is called with: the spellings of the
\* URLs of every shape, and strings of no supported shape
ValidatorInputs ==
    {left \o <<scheme, "://">> \o www \o <<"youtube.com", path>> \o ident
          \o slash \o right :
        left \in {<<>>, <<" ">>}, right \in Paddings,
        scheme \in {"http", "https"}, www \in {<<>>, <<"www.">>},
        path \in {"/@", "/channel/", "/c/", "/user/"},
        ident \in Identifiers, slash \in {<<>>, <<"/">>}}
    \cup BadUrls
    \cup {<<>>, <<" ">>, <<"youtube.com", "/@", "a", "7">>,
          <<"HTTPS", "://", "www.", "youtube.com", "/@", "a", "7">>,
          <<"https", "://", "www.", "youtube.com", "/user/">>,
          <<"https", "://", "www.", "youtube.com", "/user/", "/">>,
          <<"https", "://", "www.", "youtube.com", "/c/", "a", " ", "7">>,
          <<"https", "://", "www.", "www.", "youtube.com", "/c/", "a", "7">>,
          <<"https", "://", "www.", "youtube.com", "/channel/", "a", "7", "/", "x">>,
          <<"x", "https", "://", "www.", "youtube.com", "/channel/", "a", "7">>}

\* str(e) of the ValueError validate_url raises
UnsupportedFormat(url) == <<"Unsupported YouTube URL format: ">> \o Strip(url)

\* a validate_channel_url that strips the whitespace before the URL only
ValidationResult_StripLeft(url) ==
    LET v == ValidateFrom(StripLeft(url), 1) IN
    IF v.type = "invalid"
    THEN [is_valid |-> FALSE, type |-> "", identifier |-> <<>>,
          normalized_url |-> <<>>, error |-> UnsupportedFormat(url)]
    ELSE [is_valid |-> TRUE, type |-> v.type, identifier |-> v.identifier,
          normalized_url |-> NormalizeUrl(url), error |-> <<>>]

\* ChannelService.validate_channel_url: the dict it returns
ValidationResult(url) ==
    LET v == ValidateUrl(url) IN
    IF v.type = "invalid"
    THEN [is_valid |-> FALSE, type |-> "", identifier |-> <<>>,
          normalized_url |-> <<>>, error |-> UnsupportedFormat(url)]
    ELSE [is_valid |-> TRUE, type |-> v.type, identifier |-> v.identifier,
          normalized_url |-> NormalizeUrl(url), error |-> <<>>]

\* POST /channels/validate
ValidateChannelUrl(url) ==
    /\ call' = [fn |-> "validate_channel_url", url |-> url,
                outcome |-> Returned(ValidationResult(url))]
    /\ output' = Emit("validate_channel_url", NoId, OK)
    /\ UNCHANGED <<channels, videos, jobs, files, runs, notes>>

NextValidator == \E url \in ValidatorInputs : ValidateChannelUrl(url)

SpecValidator == Init /\ [][NextValidator]_vars


\* ------------------------------------------------------- video durations
\* A duration string is a sequence of tokens: "PT", decimal digits, the
\* unit letters and other characters.
Digits == {"0", "1", "2", "5"}

DigitValue == ("0" :> 0) @@ ("1" :> 1) @@ ("2" :> 2) @@ ("5" :> 5)

\* int(group)
RECURSIVE ToInt(_)
ToInt(ds) ==
    IF ds = <<>> THEN 0
    ELSE 10 * ToInt(SubSeq(ds, 1, Len(ds) - 1)) + DigitValue[Last1(ds)]

\* \d+ at the head of u: the number of digits it takes
RECURSIVE DigitsPrefix(_)
DigitsPrefix(u) ==
    IF Head1(u) \in Digits THEN 1 + DigitsPrefix(Drop(u, 1)) ELSE 0

\* (?:(\d+)X)? at the head of u: the group, None (<<>>) when it took
\* nothing, and what is left of u
OptionalField(u, unit) ==
    LET n == DigitsPrefix(u) IN
    IF n > 0 /\ Head1(Drop(u, n)) = unit
    THEN [group |-> SubSeq(u, 1, n), rest |-> Drop(u, n + 1)]
    ELSE [group |-> <<>>, rest |-> u]

\* what parse_duration_string returns: None, or a number of seconds
NoDuration == [is_none |-> TRUE, seconds |-> 0]

Seconds(n) == [is_none |-> FALSE, seconds |-> n]

\* VideoService.parse_duration_string
ParseDurationString(duration) ==
    IF duration = <<>> THEN NoDuration
    ELSE IF Head1(duration) # "PT" THEN NoDuration
    ELSE LET hours == OptionalField(Drop(duration, 1), "H")
             minutes == OptionalField(hours.rest, "M")
             seconds == OptionalField(minutes.rest, "S")
         IN Seconds((IF hours.group # <<>> THEN ToInt(hours.group) * 3600 ELSE 0)
                    + (IF minutes.group # <<>> THEN ToInt(minutes.group) * 60 ELSE 0)
                    + (IF seconds.group # <<>> THEN ToInt(seconds.group) ELSE 0))

\* the numbers the duration strings are written with
Numbers == {<<"0">>, <<"2">>, <<"1", "5">>}

\* PT[#H][#M][#S] with every combination of the fields
DurationString(h, m, s) ==
    <<"PT">> \o (IF h = <<>> THEN <<>> ELSE h \o <<"H">>)
             \o (IF m = <<>> THEN <<>> ELSE m \o <<"M">>)
             \o (IF s = <<>> THEN <<>> ELSE s \o <<"S">>)

WellFormedDurations ==
    {DurationString(h, m, s) : h \in Numbers \cup {<<>>},
                               m \in Numbers \cup {<<>>},
                               s \in Numbers \cup {<<>>}}

\* what follows or precedes a duration in the strings that are not one
Trailers == {<<"x">>, <<"2">>, <<"2", "H">>, <<"2", "M">>, <<"H">>}

\* the strings parse_duration_string is called with
DurationInputs ==
    WellFormedDurations
    \cup {w \o t : w \in WellFormedDurations, t \in Trailers}
    \cup {<<"x">> \o w : w \in WellFormedDurations}
    \cup {Drop(w, 1) : w \in WellFormedDurations}
    \cup {<<"INVALID">>, <<"P">>, <<"pt", "2", "H">>}

\* a video's duration is parsed
ParseDuration(duration) ==
    /\ call' = [fn |-> "parse_duration_string", duration |-> duration,
                outcome |-> Returned(ParseDurationString(duration))]
    /\ UNCHANGED <<channels, videos, jobs, files, runs, output, notes>>

NextDuration == \E duration \in DurationInputs : ParseDuration(duration)

SpecDuration == Init /\ [][NextDuration]_vars


\* ================================================================ claims
NonTerminal == {PENDING, DOWNLOADING, PROCESSING}
Terminal == {COMPLETED, FAILED, CANCELLED}

\* this step sends the response (op, id, code)
Responds(op, id, code) == output' # output /\ output' = Emit(op, id, code)

\* this step is the end of a run of job j that prints `line`
RunEnds(j, line) ==
    /\ \E r \in RunIds : runs[r].pc \notin {"none", "queued"} /\ runs[r].job_id = j
                         /\ runs'[r].pc = "none"
    /\ output' = Emit("run", j, line)

\* the status changes the data model allows
LegalStatusChange(a, b, byRetry) ==
    \/ a = b
    \/ a = PENDING /\ b = DOWNLOADING
    \/ a = DOWNLOADING /\ b = PROCESSING
    \/ a = PROCESSING /\ b = COMPLETED
    \/ a \in NonTerminal /\ b \in {FAILED, CANCELLED}
    \/ a \in {FAILED, CANCELLED} /\ b = PENDING /\ byRetry

\* C1: under any interleaving of job creation, background runs, cancel and
\* retry requests, every change of a job's stored status is pending ->
\* downloading, downloading -> processing, processing -> completed, a
\* non-terminal status -> failed or cancelled, or failed/cancelled ->
\* pending by a retry; cancelled never becomes downloading, processing or
\* completed without a retry.
C1_OnlyLegalStatusChanges ==
    [][\A j \in DOMAIN jobs \cap DOMAIN jobs' :
          LegalStatusChange(jobs[j].status, jobs'[j].status,
                            Responds("retry", j, OK))]_vars

\* C2: a run that meets no error ends with the stored job completed, its
\* progress_percentage 100, its transcript_content and completed_at non-null.
C2_RunWithoutErrorCompletes ==
    [][\A j \in JobIds : RunEnds(j, RUN_COMPLETED) =>
          /\ jobs'[j].status = COMPLETED
          /\ jobs'[j].progress_percentage = 100
          /\ jobs'[j].transcript_content # NULL
          /\ jobs'[j].completed_at # NULL]_vars

\* C3: a run in which a stage raises (the initial status update, download,
\* audio extraction, transcription, result storage or file save) ends with
\* the stored job failed, its error_message and completed_at non-null.
C3_RaisingRunStoresFailure ==
    [][\A j \in JobIds :
          (RunEnds(j, RUN_FAILED) \/ RunEnds(j, RUN_CRASHED)) =>
          /\ jobs'[j].status = FAILED
          /\ jobs'[j].error_message # NULL
          /\ jobs'[j].completed_at # NULL]_vars

C6_CancelOnlyNonTerminal ==
    [][\A j \in DOMAIN jobs :
          (output' # output /\ output'.op = "cancel" /\ output'.id = j) =>
             /\ output'.code = OK =>
                   /\ jobs[j].status \in NonTerminal
                   /\ jobs'[j].status = CANCELLED
                   /\ jobs'[j].completed_at = TS
             /\ jobs[j].status \in NonTerminal => output'.code = OK
             /\ jobs[j].status \in Terminal =>
                   output'.code = BAD_REQUEST /\ jobs' = jobs]_vars

C6_Witness ==
    /\ output = Emit("cancel", 1, OK)
    /\ 1 \in DOMAIN jobs
    /\ jobs[1].status = CANCELLED
    /\ jobs[1].progress_percentage = 50

\* the run r can take its next step without raising
RunAdvances(r) ==
    /\ RunStep(r)
    /\ output' = output \/ output'.code = RUN_COMPLETED

InFlight(r) == runs[r].pc \notin {"none", "queued"}

\* C7: a cancel request issued while a run of the job is in flight changes
\* only the stored status and completed_at: the run is not signalled (its
\* task, session and position are untouched) and its remaining stages and
\* commits stay enabled.
C7_CancelDoesNotStopRun ==
    /\ [][\A j \in DOMAIN jobs : Responds("cancel", j, OK) =>
             /\ runs' = runs /\ files' = files /\ videos' = videos
             /\ jobs' = [jobs EXCEPT ![j].status = CANCELLED,
                                     ![j].completed_at = TS]]_vars
    /\ [](\A r \in RunIds :
             (InFlight(r) /\ runs[r].job_id \in DOMAIN jobs
              /\ jobs[runs[r].job_id].status = CANCELLED) => ENABLED RunAdvances(r))

\* the latest output is the cancellation, and since then a run has stored
\* processing, transcribed and written the transcript file
C7_Witness ==
    /\ output = Emit("cancel", 1, OK)
    /\ 1 \in DOMAIN jobs
    /\ jobs[1].status = PROCESSING
    /\ jobs[1].output_file_path \in files
    /\ \E r \in RunIds : runs[r].pc = "complete" /\ runs[r].job_id = 1

Before(plan, kindA, kindB) ==
    \A a, b \in 1..Len(plan) :
        (plan[a].table = kindA /\ plan[b].table = kindB) => a < b

\* C8: after delete_channel the channel is gone, no video with that
\* channel_id remains and no job of a video of that channel remains; the
\* jobs are deleted before the videos and the videos before the channel,
\* by one commit.
C8_DeleteChannelCascades ==
    [][\A c \in DOMAIN channels : Responds("delete_channel", c, NO_CONTENT) =>
          /\ c \notin DOMAIN channels'
          /\ \A v \in DOMAIN videos' : videos'[v].channel_id # c
          /\ \A j \in DOMAIN jobs' : jobs'[j].video_id \notin VideosOfChannel(c)
          /\ \A j \in DOMAIN jobs' : jobs'[j].video_id \in DOMAIN videos'
          /\ Before(DeletePlan(c), "transcription_jobs", "videos")
          /\ Before(DeletePlan(c), "videos", "channels")
          /\ Before(DeletePlan(c), "transcription_jobs", "channels")]_vars

\* a channel was deleted with its video and its job; another job is left
C8_Witness ==
    /\ output.op = "delete_channel" /\ output.code = NO_CONTENT
    /\ DOMAIN jobs = {2}
    /\ DOMAIN videos = {2}
    /\ 1 \notin DOMAIN channels

\* the shape of a URL, read off its tokens
ShapeOf(u) == {u[i] : i \in 1..Len(u)} \cap {"/@", "/channel/", "/c/", "/user/"}

\* C9: creating a channel with a URL whose normalized form is the url of a
\* stored channel is answered 409 and adds no channel, for every spelling
\* of that URL (http or https, with or without www., with or without a
\* trailing slash).
C9_DuplicateUrlConflicts ==
    /\ [](\A u \in UrlInputs :
            /\ (Validated[u].type # "invalid"
                /\ ChannelsWithUrl(Validated[u].normalized_url) # {})
                  => \A api \in ApiAnswers : CreateChannelCode(u, api) = CONFLICT
            /\ (u \in Spellings
                /\ \E c \in DOMAIN channels : ShapeOf(channels[c].url) = ShapeOf(u))
                  => \A api \in ApiAnswers : CreateChannelCode(u, api) = CONFLICT)
    /\ [][(output' # output /\ output'.op = "create_channel"
           /\ output'.code = CONFLICT) => channels' = channels]_vars

C9_Witness ==
    /\ output = Emit("create_channel", NoId, CONFLICT)
    /\ Cardinality(DOMAIN channels) = 2

\* C10: creating a job for a video_id that is not stored is answered 404,
\* stores no job and starts no run.
C10_JobForMissingVideo ==
    [][\A v \in VideoIds :
          (output' # output /\ output'.op = "create_job" /\ output'.id = v
           /\ v \notin DOMAIN videos) =>
             /\ output'.code = NOT_FOUND
             /\ jobs' = jobs
             /\ runs' = runs]_vars

C10_Witness ==
    /\ output = Emit("create_job", 2, NOT_FOUND)
    /\ 1 \in DOMAIN videos
    /\ jobs = <<>>

\* C11: when a background run ends with an exception (a missing video, a
\* raising stage or a raising commit), the failure is stored on the job
\* (status failed, error_message non-null), the task ends inside
\* background_transcribe and the end of the run queues no new task; a run
\* whose job is missing ends without storing anything.
C11_RunFailureIsStored ==
    [][\A j \in JobIds :
          /\ (RunEnds(j, RUN_FAILED) \/ RunEnds(j, RUN_CRASHED)) =>
                /\ j \in DOMAIN jobs' =>
                      /\ jobs'[j].status = FAILED
                      /\ jobs'[j].error_message # NULL
                /\ \A r \in RunIds : runs'[r].pc = "queued" => runs[r].pc = "queued"
          /\ RunEnds(j, RUN_NOT_FOUND) =>
                /\ jobs' = jobs
                /\ \A r \in RunIds : runs'[r].pc = "queued" => runs[r].pc = "queued"]_vars

\* the taxonomy of the provider's reasons (compared without regard to case)
QuotaReasons == {"quotaExceeded", "dailyLimitExceeded", "usageRateLimitExceeded"}
AccessReasons == {"forbidden", "accessNotConfigured"}
NotFoundReasons == {"notFound", "videoNotFound", "channelNotFound"}

SameWord(S, reason) == \E x \in S : Lower(x) = Lower(reason)

Listed(reason) ==
    SameWord(QuotaReasons \cup AccessReasons \cup NotFoundReasons, reason)

\* the class the taxonomy gives an HttpError
ExpectedClass(e) ==
    LET hits == {i \in 1..Len(e.details) : Listed(e.details[i])}
        first == CHOOSE i \in hits : \A k \in hits : i <= k
    IN IF hits # {}
       THEN CASE SameWord(QuotaReasons, e.details[first]) -> QuotaExceeded
              [] SameWord(AccessReasons, e.details[first]) -> AccessDenied
              [] OTHER -> NotFound
       ELSE CASE e.status = 403 /\ (\E i \in 1..Len(e.text) : Lower(e.text[i]) = "quota")
                   -> QuotaExceeded
              [] e.status = 403 -> AccessDenied
              [] e.status = 404 -> NotFound
              [] OTHER -> ApiError

\* C12: _handle_http_error always raises: a call that met an HttpError
\* ended with an exception, whose class is quota-exceeded, access-denied or
\* not-found by the first detail whose reason is listed (whatever the HTTP
\* status), and with no listed reason quota-exceeded for status 403 with
\* 'quota' in the error text, access-denied for another 403, not-found for
\* 404 and the generic provider error for any other status.
C12_HttpErrorClassified ==
    (call.fn # "none" /\ call.error # NoError) =>
        /\ call.outcome.kind = "raised"
        /\ call.outcome.value = ExpectedClass(call.error)

\* a listed reason after an unlisted one decides, against the status 403
\* and the word quota in the text
C12_Witness ==
    /\ call.fn = "get_channel_info"
    /\ call.error = [details |-> <<"rateLimitExceeded", "notFound">>, status |-> 403,
                     text |-> <<"daily", "Quota", "used">>]
    /\ call.outcome = Raised(NotFound)

\* what create_channel tells the client for a provider error of a class
ClassDetail(class) ==
    CASE class = QuotaExceeded -> "quota_exceeded"
      [] class = AccessDenied -> "access_denied"
      [] class = NotFound -> "not_found_on_youtube"
      [] OTHER -> "api_error"

\* this step is create_channel answering after its lookup
CreateChannelReports ==
    /\ call.fn # "none"
    /\ call.caller = "create_channel"
    /\ call.pc = "done"
    /\ call'.pc = "reported"

\* C13: create_channel reports the classified provider error to the client:
\* the error its lookup raised, and, when every request of the lookup was
\* answered with a provider error, one of these errors and not 'channel
\* not found'; for a channel-ID URL and for a handle URL alike.
C13_ProviderErrorsReported ==
    [][CreateChannelReports =>
          /\ (call.outcome.kind = "raised"
              /\ call.outcome.value \in {QuotaExceeded, AccessDenied, NotFound, ApiError})
                => /\ call'.detail = ClassDetail(call.outcome.value)
                   /\ output'.code = BAD_REQUEST
          /\ (call.dropped # {} /\ ~call.answered)
                => call'.detail \in {ClassDetail(c) : c \in call.dropped}]_vars

\* the handles a name is looked up by, in order
HandleLookups(name) ==
    <<<<"@">> \o name, name, <<"@">> \o LowerSeq(name), LowerSeq(name)>>

\* the i-th request of a lookup by name is the one the order of the
\* strategies gives: four forHandle lookups, the forUsername lookup, then
\* searches (a search that matched is followed by the lookup by id)
InStrategyOrder(requests, name, i) ==
    LET req == requests[i] IN
    IF i <= 4
    THEN req.api = "channels.list" /\ req.param = "forHandle"
         /\ req.value = HandleLookups(name)[i]
    ELSE IF i = 5
    THEN req.api = "channels.list" /\ req.param = "forUsername" /\ req.value = name
    ELSE \/ req.api = "search.list"
         \/ /\ req.api = "channels.list" /\ req.param = "id"
            /\ i = Len(requests)
            /\ requests[i - 1].api = "search.list"

LookupByName == call.fn = "get_channel_by_username"

SearchesIssued == {i \in 1..Len(call.requests) : call.requests[i].api = "search.list"}

EquivalentSpellings(path, ident) ==
    {left \o <<scheme, "://">> \o www \o <<"youtube.com", path>> \o ident
          \o slash \o right :
        left \in Paddings, right \in Paddings,
        scheme \in {"http", "https"}, www \in {<<>>, <<"www.">>},
        slash \in {<<>>, <<"/">>}}

ShapeTypes == [username |-> "/@", channel_id |-> "/channel/",
               c_format |-> "/c/", user_format |-> "/user/"]

C15_WitnessInvalid ==
    /\ call.fn = "validate_channel_url"
    /\ call.url = <<"https", "://", "www.", "youtube.com", "/channel/", "a", "7", "/", "x">>
    /\ ~call.outcome.value.is_valid

NumberValue == (<<>> :> 0) @@ (<<"0">> :> 0) @@ (<<"2">> :> 2) @@ (<<"1", "5">> :> 15)

Fields == DOMAIN NumberValue

\* C16: parse_duration_string returns hours*3600 + minutes*60 + seconds for
\* every string PT[#H][#M][#S], whichever of the fields are present, 0 when
\* none is, and None for every other string: the empty one, one that is not
\* of that form, one with content after or out of order behind a valid prefix.
C16_DurationParsed ==
    call.fn = "parse_duration_string" =>
        LET d == call.duration
            r == call.outcome.value
            forms == {f \in [h : Fields, m : Fields, s : Fields] :
                         d = DurationString(f.h, f.m, f.s)}
        IN /\ \A f \in forms :
                 r = Seconds(NumberValue[f.h] * 3600 + NumberValue[f.m] * 60
                             + NumberValue[f.s])
           /\ forms = {} => r = NoDuration

\* the well-formed half of C16 alone
C16_WellFormedParsed ==
    call.fn = "parse_duration_string" =>
        \A f \in [h : Fields, m : Fields, s : Fields] :
            call.duration = DurationString(f.h, f.m, f.s) =>
                call.outcome.value =
                    Seconds(NumberValue[f.h] * 3600 + NumberValue[f.m] * 60
                            + NumberValue[f.s])

Racing(r1, r2, pc) ==
    /\ r1 # r2
    /\ runs[r1].pc = pc /\ runs[r2].pc = pc
    /\ runs[r1].job_id # runs[r2].job_id
    /\ runs[r1].video.id = runs[r2].video.id

\* C18: creating a job for a video that has a non-terminal job succeeds, and
\* nothing serializes the runs: the runs of two jobs of one video that have
\* both found the cached file absent are both free to download (or to
\* extract), and they write the same path.
C18_RunsOfOneVideoRace ==
    /\ \A v \in DOMAIN videos :
          ((\E j \in DOMAIN jobs : jobs[j].video_id = v /\ jobs[j].status \in NonTerminal)
           /\ NewId(jobs) \in JobIds /\ FreeRuns # {})
             => ENABLED (/\ CreateTranscriptionJob(v, "srt", NULL)
                         /\ output'.code = OK
                         /\ NewId(jobs) \in DOMAIN jobs'
                         /\ jobs'[NewId(jobs)].video_id = v)
    /\ \A r1, r2 \in RunIds :
          /\ Racing(r1, r2, "download") =>
                /\ VideoFile(runs[r1].video) = VideoFile(runs[r2].video)
                /\ ENABLED (DownloadVideo(r1) /\ VideoFile(runs[r1].video) \in files')
                /\ ENABLED (DownloadVideo(r2) /\ VideoFile(runs[r2].video) \in files')
          /\ Racing(r1, r2, "extract") =>
                /\ AudioFile(runs[r1].video) = AudioFile(runs[r2].video)
                /\ ENABLED (ExtractAudio(r1) /\ AudioFile(runs[r1].video) \in files')
                /\ ENABLED (ExtractAudio(r2) /\ AudioFile(runs[r2].video) \in files')

\* two runs are inside the download stage for two jobs of video 1, the file
\* not yet written
C18_Witness ==
    /\ Racing(1, 2, "download")
    /\ jobs[runs[1].job_id].video_id = 1 /\ jobs[runs[2].job_id].video_id = 1
    /\ Missing(runs[1].video.video_file_path)
    /\ Missing(runs[2].video.video_file_path)
    /\ VideoFile(runs[1].video) \notin files

\* the same inside the audio extraction
C18_WitnessExtract ==
    /\ Racing(1, 2, "extract")
    /\ Missing(runs[1].video.audio_file_path)
    /\ Missing(runs[2].video.audio_file_path)
    /\ AudioFile(runs[1].video) \notin files

\* the progress values stored with the jobs are percentages
ProgressInRange == \A j \in DOMAIN jobs : jobs[j].progress_percentage \in 0..100

\* a run that has committed a progress never stores one below it
RunProgressGrows ==
    \A r \in RunIds :
        (/\ runs[r].pc \notin {"none", "queued", "start"}
         /\ runs'[r] # runs[r]
         /\ runs[r].job_id \in DOMAIN jobs /\ runs[r].job_id \in DOMAIN jobs'
         /\ jobs'[runs[r].job_id].progress_percentage
                # jobs[runs[r].job_id].progress_percentage)
          => /\ jobs'[runs[r].job_id].progress_percentage
                    >= runs[r].committed.progress_percentage
             /\ jobs'[runs[r].job_id].progress_percentage \in {10, 30, 50, 90, 100}

\* the stored progress agrees with the stored status
ProgressMatchesStatus ==
    \A j \in DOMAIN jobs :
        /\ jobs[j].status = DOWNLOADING => jobs[j].progress_percentage \in {10, 30}
        /\ jobs[j].status = PROCESSING => jobs[j].progress_percentage = 50

\* C19: the stored progress_percentage of a job is always within 0..100; the
\* values one background run commits never decrease (10 on entering
\* downloading, 30 once the video file is there, 50 on entering processing,
\* 100 on completed); a stored status of downloading implies a progress of
\* 10 or 30 and a stored status of processing a progress of 50.
C19_ProgressConsistent ==
    /\ []ProgressInRange
    /\ [][RunProgressGrows]_vars
    /\ []ProgressMatchesStatus

C19_RangeAndGrowth == []ProgressInRange /\ [][RunProgressGrows]_vars

\* the path is unset, or it names a file that does not exist
Absent(path) == path = NULL \/ path \notin files

\* C20: a run invokes the downloader only if the video_file_path of its
\* video is unset or names a file that does not exist, and the audio
\* extraction only if audio_file_path is unset or names a missing file; when
\* the cached file is there the run leaves the path of the Video record as it
\* is, and it goes on through the same statuses and progress values
\* (downloading 30, processing 50).
C20_CachedFilesAreReused ==
    [][\A r \in RunIds :
          /\ (runs[r].pc = "video" /\ runs'[r].pc = "download")
                => Absent(runs[r].video.video_file_path)
          /\ (runs[r].pc = "video" /\ runs'[r].pc = "p30")
                => /\ ~Absent(runs[r].video.video_file_path)
                   /\ videos' = videos /\ files' = files
                   /\ runs'[r].video = runs[r].video
          /\ (runs[r].pc = "p30" /\ runs'[r].pc = "extract")
                => Absent(runs[r].video.audio_file_path)
          /\ (runs[r].pc = "p30" /\ runs'[r].pc = "toproc")
                => /\ ~Absent(runs[r].video.audio_file_path)
                   /\ videos' = videos /\ files' = files
                   /\ runs'[r].video = runs[r].video
          /\ (runs[r].pc = "p30" /\ runs'[r].pc \in {"extract", "toproc"})
                => /\ runs'[r].committed.status = DOWNLOADING
                   /\ runs'[r].committed.progress_percentage = 30
          /\ (runs[r].pc \in {"extract", "toproc"} /\ runs'[r].pc = "transcribe")
                => /\ runs'[r].committed.status = PROCESSING
                   /\ runs'[r].committed.progress_percentage = 50
          /\ (runs'[r] # runs[r] /\ runs[r].pc \notin {"download", "extract"})
                => videos' = videos]_vars

\* the run of job 2 took the task slot the finished run of job 1 had left,
\* so it found both files of the video stored; it is about to enter
\* processing without having downloaded or extracted
C20_Witness ==
    /\ runs[1].job_id = 2 /\ runs[1].pc = "toproc"
    /\ runs[2].pc = "none"
    /\ DOMAIN jobs = {1, 2}
    /\ jobs[1].status = COMPLETED /\ jobs[1].video_id = jobs[2].video_id
    /\ jobs[2].status = DOWNLOADING /\ jobs[2].progress_percentage = 30
    /\ videos[1].video_file_path \in files /\ videos[1].audio_file_path \in files

\* the run r was at the step pc and this step ends it with an exception
EndsFrom(r, pc) ==
    /\ runs[r].pc = pc
    /\ runs'[r].pc = "none"
    /\ output'.op = "run" /\ output'.code \in {RUN_FAILED, RUN_CRASHED}

\* this step stores no transcript with the job of run r
NoTranscriptStored(r) ==
    runs[r].job_id \in DOMAIN jobs =>
        /\ runs[r].job_id \in DOMAIN jobs'
        /\ jobs'[runs[r].job_id].transcript_content
               = jobs[runs[r].job_id].transcript_content

\* C21: after a stage of a run raises, the run executes no later stage: a
\* failure in the download leaves extraction, transcription and file save
\* undone, a failure in the extraction leaves transcription and file save
\* undone, a failure in the transcription stores no transcript and writes no
\* file; the run is over.
C21_FailureStopsRun ==
    [][\A r \in RunIds :
          /\ EndsFrom(r, "download") =>
                /\ runs'[r] = NoRun
                /\ files' \ files \subseteq {VideoFile(runs[r].video)}
                /\ videos' = videos
                /\ NoTranscriptStored(r)
          /\ EndsFrom(r, "extract") =>
                /\ runs'[r] = NoRun
                /\ files' \ files \subseteq {AudioFile(runs[r].video)}
                /\ videos' = videos
                /\ NoTranscriptStored(r)
          /\ EndsFrom(r, "transcribe") =>
                /\ runs'[r] = NoRun
                /\ files' = files
                /\ videos' = videos
                /\ NoTranscriptStored(r)]_vars

\* the only run of job 1 has failed in the download: nothing was extracted,
\* transcribed or saved
C21_Witness ==
    /\ output = Emit("run", 1, RUN_FAILED)
    /\ DOMAIN jobs = {1}
    /\ jobs[1].status = FAILED /\ jobs[1].progress_percentage = 10
    /\ jobs[1].transcript_content = NULL
    /\ files = {}
    /\ \A r \in RunIds : runs[r] = NoRun

\* the task in slot r was queued by a retry: the task of the job's creation
\* is the first task there is and takes slot 1, so a task in another slot
\* was queued by retry_transcription_job
StartedByRetry(r) == r # 1 /\ runs[r].pc # "none"

\* C22: the run a retry starts begins at the first stage, whatever stage the
\* run before it failed or was cancelled in: its first commit sets status
\* downloading with progress 10 and a fresh started_at; it takes the job
\* through processing before completed, and never from pending to
\* processing or completed.
C22_RetryRunsFromStart ==
    [][\A r \in RunIds :
          (StartedByRetry(r) /\ runs'[r] # runs[r]
           /\ runs[r].job_id \in DOMAIN jobs /\ runs[r].job_id \in DOMAIN jobs') =>
             LET old == jobs[runs[r].job_id]
                 new == jobs'[runs[r].job_id]
             IN /\ (runs[r].pc = "queued" /\ runs'[r].pc # "none")
                      => runs'[r].pc = "start"
                /\ (runs[r].pc = "start" /\ runs'[r].pc = "video")
                      => /\ new.status = DOWNLOADING
                         /\ new.progress_percentage = 10
                         /\ new.started_at = TS
                /\ old.status = PENDING => new.status \notin {PROCESSING, COMPLETED}
                /\ (new.status = COMPLETED /\ old.status # COMPLETED)
                      => old.status = PROCESSING]_vars

\* this step of run r writes a file that is not one of the media files
WritesOutput(r) ==
    /\ InFlight(r)
    /\ runs'[r] # runs[r]
    /\ files' \ files \notin {{}, {VideoFile(runs[r].video)}, {AudioFile(runs[r].video)}}

\* a run writes the transcript file only for a job with an output_file_path,
\* once it has the transcript and before it commits completed; a run that
\* completes has written the file exactly when the job has such a path
WriteInOrder ==
    \A r \in RunIds :
        /\ WritesOutput(r) =>
              /\ runs[r].job.output_file_path # NULL
              /\ files' = files \cup {runs[r].job.output_file_path}
              /\ runs[r].job.transcript_content # NULL
              /\ runs[r].committed.status # COMPLETED
              /\ runs'[r].pc = "complete"
        /\ (runs[r].pc = "transcribe" /\ runs'[r].pc \in {"save", "complete"}) =>
              (runs'[r].pc = "save" <=> runs[r].job.output_file_path # NULL)
        /\ (runs[r].pc = "save" /\ runs'[r].pc = "complete") =>
              runs[r].job.output_file_path \in files'
        /\ (runs[r].pc = "complete" /\ runs[r].job.output_file_path # NULL) =>
              runs[r].job.output_file_path \in files

\* a write that fails leaves the job failed
FailedWriteFailsJob ==
    \A r \in RunIds :
        (EndsFrom(r, "save") /\ runs[r].job_id \in DOMAIN jobs) =>
            /\ runs[r].job_id \in DOMAIN jobs'
            /\ jobs'[runs[r].job_id].status = FAILED
            /\ files' = files

\* C23: a run writes a transcript output file if and only if the job's
\* output_file_path is non-null, after the transcript is obtained and before
\* the status becomes completed; a failure of the write leaves the job
\* failed, not completed.
C23_OutputFileWritten == [][WriteInOrder /\ FailedWriteFailsJob]_vars

C23_WriteOrderOnly == [][WriteInOrder]_vars

\* every run that has found its job ends
RunsEnd == \A r \in RunIds : (runs[r].pc = "start") ~> (runs[r].pc = "none")

\* the step that ends a run leaves the job stored as completed or failed
EndsWithTerminalStatus ==
    \A r \in RunIds :
        (InFlight(r) /\ runs'[r].pc = "none" /\ runs[r].job_id \in DOMAIN jobs') =>
            jobs'[runs[r].job_id].status \in {COMPLETED, FAILED}

\* no job stays in downloading or processing for ever
NoJobStuck ==
    \A j \in JobIds :
        (j \in DOMAIN jobs /\ jobs[j].status \in {DOWNLOADING, PROCESSING})
            ~> (j \in DOMAIN jobs /\ jobs[j].status \notin {DOWNLOADING, PROCESSING})

\* C24: provided every external call (download, extraction, transcription,
\* file write, commit) returns or raises in the end, every background run
\* that finds its job ends, with the job's status written as completed or
\* failed; no run leaves the job in downloading or processing for ever.
C24_RunsEndWithStatus ==
    /\ RunsEnd
    /\ [][EndsWithTerminalStatus]_vars
    /\ NoJobStuck

C24_RunsEndOnly == RunsEnd

\* C25: create_video_from_metadata is idempotent on the youtube_id: for a
\* youtube_id that is stored it answers with the stored record, inserts
\* nothing and changes none of its fields (channel_id included), so no two
\* stored videos share a youtube_id.
C25_VideoCreationIdempotent ==
    /\ \A v, w \in DOMAIN videos :
          videos[v].youtube_id = videos[w].youtube_id => v = w
    /\ \A v \in DOMAIN videos :
          \A c \in {NoId} \cup DOMAIN channels :
              /\ ENABLED (/\ CreateVideoFromMetadata(videos[v].youtube_id, c)
                          /\ videos' = videos
                          /\ output'.code = OK)
              /\ ~ENABLED (/\ CreateVideoFromMetadata(videos[v].youtube_id, c)
                           /\ videos' # videos)

\* the one stored video has no channel; it was created again for channel 1
\* and the stored record was returned as it was
C25_Witness ==
    /\ output = Emit("create_video", 1, OK)
    /\ DOMAIN videos = {1}
    /\ videos[1].channel_id = NoId
    /\ 1 \in DOMAIN channels

\* C26: at any time at most one background run is executing for a job:
\* under any sequence of create, cancel and retry requests no run of a job
\* starts while an earlier run of that job is still executing.
C26_OneRunPerJob ==
    \A r1, r2 \in RunIds :
        (InFlight(r1) /\ InFlight(r2) /\ runs[r1].job_id = runs[r2].job_id)
            => r1 = r2

\* C27: completed is absorbing: once the stored status of a job is completed,
\* no cancel request, retry request or step of a run changes it.
C27_CompletedIsAbsorbing ==
    [][\A j \in DOMAIN jobs :
          (jobs[j].status = COMPLETED /\ j \in DOMAIN jobs')
              => jobs'[j].status = COMPLETED]_vars

\* The requests alone: a cancel or retry request never changes the status of
\* a completed job.
C27_RequestsKeepCompleted ==
    [][\A j \in DOMAIN jobs :
          (/\ jobs[j].status = COMPLETED
           /\ j \in DOMAIN jobs'
           /\ output' # output
           /\ output'.op \in {"cancel", "retry"})
              => jobs'[j].status = COMPLETED]_vars

\* C28: in every reachable state a stored job whose status is completed has
\* progress_percentage 100, a non-null transcript_content and a non-null
\* completed_at, also when runs and requests interleave and a commit writes
\* only some attributes.
C28_CompletedJobIsWhole ==
    \A j \in DOMAIN jobs :
        jobs[j].status = COMPLETED =>
            /\ jobs[j].progress_percentage = 100
            /\ jobs[j].transcript_content # NULL
            /\ jobs[j].completed_at # NULL

\* C29: in every reachable state the completed_at of a stored job is
\* non-null exactly when its status is completed, failed or cancelled, and
\* a stored job that is downloading or processing has a non-null started_at.
C29_TimestampsMatchStatus ==
    \A j \in DOMAIN jobs :
        /\ (jobs[j].completed_at # NULL) <=> (jobs[j].status \in Terminal)
        /\ jobs[j].status \in {DOWNLOADING, PROCESSING} =>
              jobs[j].started_at # NULL

\* The second half alone: a downloading or processing job has a started_at.
C29_StartedAtOfActiveJob ==
    \A j \in DOMAIN jobs :
        jobs[j].status \in {DOWNLOADING, PROCESSING} =>
            jobs[j].started_at # NULL

\* ------------------------------------- requests that suspend at an await
\* A request handler is a coroutine: at every await of the database another
\* request may run.  Here create_transcription_job and delete_channel are
\* taken apart at these awaits; call holds the requests that are under way.
NoRequest == [pc |-> "none"]

Requests ==
    IF call.fn = "requests" THEN call
    ELSE [fn |-> "requests", create |-> NoRequest, delete |-> NoRequest]

Suspended(create, delete) ==
    IF create.pc = "none" /\ delete.pc = "none" THEN NoCall
    ELSE [fn |-> "requests", create |-> create, delete |-> delete]

\* create_transcription_job up to its first await: the video is selected
CreateJobSelectVideo(video_id, format, name) ==
    /\ call.fn \in {"none", "requests"}
    /\ Requests.create.pc = "none"
    /\ IF ~Exists(videos, video_id)
       THEN /\ output' = Emit("create_job", video_id, NOT_FOUND)
            /\ UNCHANGED call
       ELSE /\ call' = Suspended([pc |-> "checked", video_id |-> video_id,
                                  video |-> videos[video_id],
                                  format |-> format, name |-> name],
                                 Requests.delete)
            /\ UNCHANGED output
    /\ UNCHANGED <<channels, videos, jobs, files, runs, notes>>

\* create_transcription_job from db.add(job) on: the job is inserted with
\* the video_id that was checked, the task is added, the job is returned.
\* The default database is SQLite, on which no connection turns foreign
\* keys on: the insert of a job whose video is gone succeeds.  A database
\* that enforces the foreign key makes the commit raise.
CreateJobCommit ==
    /\ call.fn = "requests"
    /\ call.create.pc = "checked"
    /\ LET c == call.create IN
       \/ /\ NewId(jobs) \in JobIds
          /\ FreeRuns # {}
          /\ jobs' = Insert(jobs, NewId(jobs),
                 [video_id |-> c.video_id, status |-> PENDING,
                  format |-> c.format,
                  output_file_path |-> OutputFilePath(c.video, c.name, c.format),
                  transcript_content |-> NULL, deepgram_response |-> NULL,
                  error_message |-> NULL, progress_percentage |-> 0,
                  started_at |-> NULL, completed_at |-> NULL])
          /\ runs' = AddTask(runs, NewId(jobs))
          /\ output' = Emit("create_job", c.video_id, OK)
       \/ /\ ~Exists(videos, c.video_id)
          /\ output' = Emit("create_job", c.video_id, SERVER_ERROR)
          /\ UNCHANGED <<jobs, runs>>
    /\ call' = Suspended(NoRequest, call.delete)
    /\ UNCHANGED <<channels, videos, files, notes>>

\* DELETE /channels/{channel_id} up to delete_channel: get_channel_by_id
DeleteSelectChannel(c) ==
    /\ call.fn \in {"none", "requests"}
    /\ Requests.delete.pc = "none"
    /\ IF ~Exists(channels, c)
       THEN /\ output' = Emit("delete_channel", c, NOT_FOUND)
            /\ UNCHANGED call
       ELSE /\ call' = Suspended(Requests.create,
                                 [pc |-> "channel", channel |-> c,
                                  jobs |-> {}, videos |-> {}])
            /\ UNCHANGED output
    /\ UNCHANGED <<channels, videos, jobs, files, runs, notes>>

\* delete_channel: the jobs of the channel's videos are selected and marked
DeleteSelectJobs ==
    /\ call.fn = "requests"
    /\ call.delete.pc = "channel"
    /\ call' = [call EXCEPT
                  !.delete.pc = "jobs",
                  !.delete.jobs = JobsOfVideos(VideosOfChannel(call.delete.channel))]
    /\ UNCHANGED <<channels, videos, jobs, files, runs, output, notes>>

\* delete_channel: the videos of the channel are selected and marked
DeleteSelectVideos ==
    /\ call.fn = "requests"
    /\ call.delete.pc = "jobs"
    /\ call' = [call EXCEPT
                  !.delete.pc = "videos",
                  !.delete.videos = VideosOfChannel(call.delete.channel)]
    /\ UNCHANGED <<channels, videos, jobs, files, runs, output, notes>>

\* the jobs the flush finds in Video.transcription_jobs of the videos it
\* deletes and that the session did not mark: the relationship has no
\* cascade, so the flush sets their video_id to NULL
Nullified(d) == JobsOfVideos(d.videos) \ d.jobs

\* delete_channel: db.delete(channel) and the commit.  video_id is not
\* nullable: a job to nullify makes the commit raise, the route answers 500
\* and nothing is deleted.  Channel.videos has no cascade either: a video
\* of the channel that was not marked keeps its row and loses its channel.
DeleteCommit ==
    /\ call.fn = "requests"
    /\ call.delete.pc = "videos"
    /\ LET d == call.delete IN
       IF Nullified(d) # {}
       THEN /\ output' = Emit("delete_channel", d.channel, SERVER_ERROR)
            /\ UNCHANGED <<channels, videos, jobs, notes>>
       ELSE /\ jobs' = Delete(jobs, d.jobs)
            /\ videos' = [v \in DOMAIN videos \ d.videos |->
                            IF videos[v].channel_id = d.channel
                            THEN [videos[v] EXCEPT !.channel_id = NoId]
                            ELSE videos[v]]
            /\ notes' = Delete(notes, CascadeNotes(d.videos))
            /\ channels' = Delete(channels, {d.channel})
            /\ output' = Emit("delete_channel", d.channel, NO_CONTENT)
    /\ call' = Suspended(call.create, NoRequest)
    /\ UNCHANGED <<files, runs>>

RequestUrls == {u \in CanonicalUrls : u[5] = "/@"}

NextRequests ==
    \/ \E u \in RequestUrls, api \in ApiAnswers : CreateChannel(u, api)
    \/ \E yt \in YoutubeIds, c \in ChannelIds \cup {NoId} :
          CreateVideoFromMetadata(yt, c)
    \/ \E v \in VideoIds : CreateJobSelectVideo(v, "txt", NULL)
    \/ CreateJobCommit
    \/ \E c \in ChannelIds : DeleteSelectChannel(c)
    \/ DeleteSelectJobs
    \/ DeleteSelectVideos
    \/ DeleteCommit

SpecRequests == Init /\ [][NextRequests]_vars

\* C30: in every reachable state every stored job references a stored video,
\* also when a create-job request (which checks that the video exists and
\* then inserts the job) interleaves with a delete-channel request (which
\* selects the jobs and videos to delete and then commits).
C30_JobsReferenceVideos ==
    \A j \in DOMAIN jobs : jobs[j].video_id \in DOMAIN videos

====
